---------------------------- MODULE Spec2Model ----------------------------
(***************************************************************************)
(* Model of labgrid/resource/udev.py: the UdevManager (event queue, initial *)
(* scan, poll loop) and the USBResource matching state machine with the     *)
(* specializations USBSerialPort, USBMassStorage, AndroidFastboot and       *)
(* USBSDMuxDevice, their construction and their derived properties.         *)
(***************************************************************************)
EXTENDS Naturals, Sequences, FiniteSets, TLC

VARIABLES
    host,        \* sys_paths of the devices that can be plugged into this host
    resources,   \* UdevManager.resources: registered resources, in registration order
    queue,       \* UdevManager.queue: FIFO of device snapshots pushed by the observer
    present,     \* sys_paths of the devices the udev context currently enumerates
    pc,          \* where the polling thread is: "idle" outside of poll, "check" at
                 \* the loop condition of poll, "get" at queue.get
    nPushed,     \* number of events the observer callback has pushed so far
    nPopped,     \* number of events poll has taken from the queue so far
    last         \* record of the most recent operation (observation only)

vars == <<host, resources, queue, present, pc, nPushed, nPopped, last>>

\* Bound on the number of kernel events the observer delivers in one run.
MaxEvents == 2

-----------------------------------------------------------------------------
(* Python values *)

\* Python's None where a string is expected (properties.get, device_node, action).
None == "None"

\* Python's None where a device snapshot is expected (USBResource.device).
NullDevice == [null |-> TRUE]

\* dict.get(key) with the default None.
Get(dict, key) == IF key \in DOMAIN dict THEN dict[key] ELSE None

\* dict[key] = value
SetItem(dict, key, value) ==
    [k \in DOMAIN dict \cup {key} |-> IF k = key THEN value ELSE dict[k]]

\* dict.setdefault(key, value)
SetDefault(dict, key, value) ==
    IF key \in DOMAIN dict THEN dict ELSE SetItem(dict, key, value)

\* The empty dict {}.
EmptyDict == [k \in {} |-> None]

-----------------------------------------------------------------------------
(* The devices of the host (the pyudev collaborator).  What udev reports    *)
(* about a device is fixed per sys_path; a snapshot adds the action and the *)
(* kernel's event sequence number.                                          *)

DeviceTable ==
    [p \in {"/usb1", "/usb1/if0", "/usb1/tty0", "/usb2", "/usb2/tty1", "/usb3",
             "/usb3/sda", "/usb3/sg0", "/platform/ttyS0"} |->
        CASE p = "/usb1" ->
               [subsystem |-> "usb", device_type |-> "usb_device",
                sys_name |-> "1-1", device_node |-> "/dev/bus/usb/001/002",
                properties |-> [SUBSYSTEM |-> "usb", DEVTYPE |-> "usb_device",
                                ID_VENDOR_ID |-> "0403", ID_MODEL_ID |-> "6001",
                                BUSNUM |-> "001", DEVNUM |-> "002"],
                attributes |-> [idVendor |-> "0403", idProduct |-> "6001"],
                ancestors |-> <<>>]
          [] p = "/usb1/if0" ->
               [subsystem |-> "usb", device_type |-> "usb_interface",
                sys_name |-> "1-1:1.0", device_node |-> None,
                properties |-> [SUBSYSTEM |-> "usb", DEVTYPE |-> "usb_interface",
                                DRIVER |-> "ftdi_sio"],
                attributes |-> [bInterfaceNumber |-> "00"],
                ancestors |-> <<"/usb1">>]
          [] p = "/usb1/tty0" ->
               [subsystem |-> "tty", device_type |-> None,
                sys_name |-> "ttyUSB0", device_node |-> "/dev/ttyUSB0",
                properties |-> [SUBSYSTEM |-> "tty", ID_VENDOR_ID |-> "0403",
                                ID_MODEL_ID |-> "6001"],
                attributes |-> EmptyDict,
                ancestors |-> <<"/usb1/if0", "/usb1">>]
          [] p = "/usb2" ->
               [subsystem |-> "usb", device_type |-> "usb_device",
                sys_name |-> "1-2", device_node |-> "/dev/bus/usb/001/003",
                properties |-> [SUBSYSTEM |-> "usb", DEVTYPE |-> "usb_device",
                                ID_VENDOR_ID |-> "067b", ID_MODEL_ID |-> "2303",
                                BUSNUM |-> "001", DEVNUM |-> "003"],
                attributes |-> [idVendor |-> "067b", idProduct |-> "2303"],
                ancestors |-> <<>>]
          [] p = "/usb2/tty1" ->
               [subsystem |-> "tty", device_type |-> None,
                sys_name |-> "ttyUSB1", device_node |-> "/dev/ttyUSB1",
                properties |-> [SUBSYSTEM |-> "tty", ID_VENDOR_ID |-> "067b",
                                ID_MODEL_ID |-> "2303"],
                attributes |-> EmptyDict,
                ancestors |-> <<"/usb2">>]
          [] p = "/platform/ttyS0" ->
               [subsystem |-> "tty", device_type |-> None,
                sys_name |-> "ttyS0", device_node |-> "/dev/ttyS0",
                properties |-> [SUBSYSTEM |-> "tty"],
                attributes |-> EmptyDict,
                ancestors |-> <<>>]
          [] p = "/usb3/sda" ->
               [subsystem |-> "block", device_type |-> "disk",
                sys_name |-> "sda", device_node |-> "/dev/sda",
                properties |-> [SUBSYSTEM |-> "block", DEVTYPE |-> "disk"],
                attributes |-> EmptyDict,
                ancestors |-> <<"/usb3">>]
          [] p = "/usb3/sg0" ->
               [subsystem |-> "scsi_generic", device_type |-> None,
                sys_name |-> "sg0", device_node |-> "/dev/sg0",
                properties |-> [SUBSYSTEM |-> "scsi_generic"],
                attributes |-> EmptyDict,
                ancestors |-> <<"/usb3">>]
          [] OTHER ->
               [subsystem |-> "usb", device_type |-> "usb_device",
                sys_name |-> "1-3", device_node |-> "/dev/bus/usb/001/004",
                properties |-> [SUBSYSTEM |-> "usb", DEVTYPE |-> "usb_device",
                                ID_VENDOR_ID |-> "0424", ID_MODEL_ID |-> "4041",
                                BUSNUM |-> "001", DEVNUM |-> "004"],
                attributes |-> [idVendor |-> "0424", idProduct |-> "4041"],
                ancestors |-> <<>>]]

\* The devices that are plugged and unplugged in the model, in the order in
\* which the udev enumeration lists them (sorted by sys_path).
EnumOrder == <<"/usb1/tty0", "/usb2/tty1", "/usb3", "/usb3/sda", "/usb3/sg0">>

Paths == {EnumOrder[i] : i \in DOMAIN EnumOrder}

\* device.action of a monitor event; an enumerated device has action None.
EventActions == {"add", "change", "move", "unbind", "remove"}

\* A pyudev.Device: one snapshot of the device at sys_path.
Snapshot(path, action, seqnum) ==
    [sys_path |-> path, action |-> action, sequence_number |-> seqnum]

Properties(dev) == DeviceTable[dev.sys_path].properties
Attributes(dev) == DeviceTable[dev.sys_path].attributes
Subsystem(dev) == DeviceTable[dev.sys_path].subsystem
DeviceNode(dev) == DeviceTable[dev.sys_path].device_node

\* device.ancestors: the parents of the device, nearest first.
Ancestors(dev) ==
    [i \in DOMAIN DeviceTable[dev.sys_path].ancestors |->
        Snapshot(DeviceTable[dev.sys_path].ancestors[i], None, 0)]

\* The sys_paths of the ancestors of the device at path.
AncestorPaths(path) ==
    {DeviceTable[path].ancestors[i] : i \in DOMAIN DeviceTable[path].ancestors}

\* device.children: snapshots of the devices below dev that the udev context
\* enumerates at the time of the call.
Children(dev, pres) ==
    LET paths == SelectSeq(EnumOrder,
                     LAMBDA p : p \in pres /\ dev.sys_path \in AncestorPaths(p))
    IN  [i \in DOMAIN paths |-> Snapshot(paths[i], None, 0)]

\* getattr(dev, key, None)
GetAttr(dev, key) ==
    CASE key = "sys_path" -> dev.sys_path
      [] key = "action" -> dev.action
      [] key \in {"subsystem", "device_type", "sys_name", "device_node"} ->
             DeviceTable[dev.sys_path][key]
      [] OTHER -> None


-----------------------------------------------------------------------------
(* Resources *)

\* A resource object.  avail is the attribute ManagedResource declares; port
\* belongs to USBSerialPort, usb_vendor_id and usb_product_id to
\* AndroidFastboot, control_path and disk_path to USBSDMuxDevice.  match is
\* the content of the dict self.match refers to; shared_match tells whether
\* that dict is the one default object of the attribute (no match argument
\* was given) and not a dict of the caller's.
NewResource(cls, match) ==
    [cls |-> cls, match |-> match, shared_match |-> FALSE,
     device |-> NullDevice, avail |-> FALSE,
     port |-> None, usb_vendor_id |-> None, usb_product_id |-> None,
     control_path |-> None, disk_path |-> None]

\* USBResource.__attrs_post_init__: the subsystem defaults to usb.
USBResource(match) ==
    NewResource("USBResource", SetDefault(match, "SUBSYSTEM", "usb"))

\* USBSerialPort.__attrs_post_init__: the subsystem is forced to tty.
USBSerialPort(match) ==
    [USBResource(SetItem(match, "SUBSYSTEM", "tty")) EXCEPT !.cls = "USBSerialPort"]

\* USBMassStorage.__attrs_post_init__: a disk below a usb device.
USBMassStorage(match) ==
    [USBResource(SetItem(SetItem(SetItem(match, "SUBSYSTEM", "block"),
                                 "DEVTYPE", "disk"),
                         "@SUBSYSTEM", "usb"))
        EXCEPT !.cls = "USBMassStorage"]

\* AndroidFastboot: a USBResource with a configured vendor and product id.
AndroidFastboot(match, vendor, product) ==
    [USBResource(match) EXCEPT !.cls = "AndroidFastboot",
                               !.usb_vendor_id = vendor,
                               !.usb_product_id = product]

\* USBSDMuxDevice.__attrs_post_init__: the vendor and model id are fixed.
USBSDMuxDevice(match) ==
    [USBResource(SetItem(SetItem(match, "ID_VENDOR_ID", "0424"),
                         "ID_MODEL_ID", "4041"))
        EXCEPT !.cls = "USBSDMuxDevice"]

\* The avail property: USBSDMuxDevice overrides it, every other class reads
\* the attribute.
Avail(res) ==
    IF res.cls = "USBSDMuxDevice"
    THEN res.disk_path # None /\ res.control_path # None
    ELSE res.avail

\* Assignment to avail: the setter of USBSDMuxDevice ignores it.
SetAvail(res, value) ==
    IF res.cls = "USBSDMuxDevice" THEN res ELSE [res EXCEPT !.avail = value]

\* filter_match: TRUE in USBResource; AndroidFastboot compares the device's
\* vendor and model id with its configured ids.
FilterMatch(res, device) ==
    IF res.cls = "AndroidFastboot"
    THEN /\ Get(Properties(device), "ID_VENDOR_ID") = res.usb_vendor_id
         /\ Get(Properties(device), "ID_MODEL_ID") = res.usb_product_id
    ELSE TRUE

\* update: a no-op in USBResource; USBSerialPort copies the device node.
Update(res) ==
    IF res.cls = "USBSerialPort"
    THEN [res EXCEPT !.port = IF res.device # NullDevice
                               THEN DeviceNode(res.device) ELSE None]
    ELSE res

\* The loop of USBSDMuxDevice.poll over the children from the i-th on: a
\* block disk gives the disk path, a scsi_generic device the control path.
RECURSIVE DiscoverFrom(_, _, _)
DiscoverFrom(res, children, i) ==
    IF i > Len(children)
    THEN res
    ELSE LET child == children[i]
             t == DeviceTable[child.sys_path]
         IN  DiscoverFrom(
                 IF t.subsystem = "block" /\ t.device_type = "disk"
                 THEN [res EXCEPT !.disk_path = t.device_node]
                 ELSE IF t.subsystem = "scsi_generic"
                      THEN [res EXCEPT !.control_path = t.device_node]
                      ELSE res,
                 children, i + 1)

\* USBSDMuxDevice.poll after super().poll(): without a device both paths are
\* cleared, with a device and not yet available its children are searched.
USBSDMuxDevicePoll(res, pres) ==
    IF res.device = NullDevice
    THEN [res EXCEPT !.control_path = None, !.disk_path = None]
    ELSE IF ~Avail(res)
         THEN DiscoverFrom(res, Children(res.device, pres), 1)
         ELSE res

\* What reading a property gives: an exception, the absent value None, or
\* a value.
Raised == [raised |-> TRUE, absent |-> FALSE, value |-> 0]
Absent == [raised |-> FALSE, absent |-> TRUE, value |-> 0]
Returned(v) == [raised |-> FALSE, absent |-> FALSE, value |-> v]

\* int(s) and int(s, 16) for the strings udev reports; int(None) raises
\* TypeError.
DecimalValue == [s \in {"001", "002", "003", "004"} |->
                    CASE s = "001" -> 1 [] s = "002" -> 2
                      [] s = "003" -> 3 [] OTHER -> 4]

HexValue == [s \in {"0403", "067b", "0424", "6001", "2303", "4041"} |->
                CASE s = "0403" -> 1027 [] s = "067b" -> 1659
                  [] s = "0424" -> 1060 [] s = "6001" -> 24577
                  [] s = "2303" -> 8963 [] OTHER -> 16449]

Int(s, table) == IF s \in DOMAIN table THEN Returned(table[s]) ELSE Raised

\* device.find_parent(subsystem, device_type): the nearest ancestor of that
\* subsystem and type, or None.
FindParent(dev, subsystem, device_type) ==
    LET chain == Ancestors(dev)
        hits == {i \in DOMAIN chain :
                    /\ Subsystem(chain[i]) = subsystem
                    /\ DeviceTable[chain[i].sys_path].device_type = device_type}
    IN  IF hits = {} THEN NullDevice
        ELSE chain[CHOOSE i \in hits : \A j \in hits : i <= j]

\* USBResource._get_usb_device: the device itself if it is a usb_device,
\* else its nearest usb_device ancestor, else None.
GetUsbDevice(res) ==
    IF /\ res.device # NullDevice
       /\ \/ Subsystem(res.device) # "usb"
          \/ DeviceTable[res.device.sys_path].device_type # "usb_device"
    THEN FindParent(res.device, "usb", "usb_device")
    ELSE res.device

\* The property busnum.
Busnum(res) ==
    LET device == GetUsbDevice(res)
    IN  IF device # NullDevice
        THEN Int(Get(Properties(device), "BUSNUM"), DecimalValue)
        ELSE Absent

\* The property devnum.
Devnum(res) ==
    LET device == GetUsbDevice(res)
    IN  IF device # NullDevice
        THEN Int(Get(Properties(device), "DEVNUM"), DecimalValue)
        ELSE Absent

\* The property vendor_id.
VendorId(res) ==
    LET device == GetUsbDevice(res)
    IN  IF device # NullDevice
        THEN Int(Get(Properties(device), "ID_VENDOR_ID"), HexValue)
        ELSE Absent

\* The property model_id.
ModelId(res) ==
    LET device == GetUsbDevice(res)
    IN  IF device # NullDevice
        THEN Int(Get(Properties(device), "ID_MODEL_ID"), HexValue)
        ELSE Absent

\* The property path: the sys_name of the usb device in USBResource, the
\* device node in USBMassStorage, the disk path in USBSDMuxDevice.
Path(res) ==
    CASE res.cls = "USBSDMuxDevice" ->
             IF res.disk_path = None THEN Absent ELSE Returned(res.disk_path)
      [] res.cls = "USBMassStorage" ->
             IF res.device # NullDevice
             THEN IF DeviceNode(res.device) = None THEN Absent
                  ELSE Returned(DeviceNode(res.device))
             ELSE Absent
      [] OTHER ->
             LET device == GetUsbDevice(res)
             IN  IF device # NullDevice
                 THEN Returned(DeviceTable[device.sys_path].sys_name)
                 ELSE Absent

\* k.startswith('@') and k[1:] for the ancestor keys in use.
AncestorKeys == [k \in {"@SUBSYSTEM", "@DRIVER", "@ID_VENDOR_ID"} |->
                    CASE k = "@SUBSYSTEM" -> "SUBSYSTEM"
                      [] k = "@DRIVER" -> "DRIVER"
                      [] OTHER -> "ID_VENDOR_ID"]

StartsWithAt(k) == k \in DOMAIN AncestorKeys

\* match_single: property, then sysfs attribute, then attribute of the object.
MatchSingle(dev, key, value) ==
    \/ Get(Properties(dev), key) = value
    \/ Get(Attributes(dev), key) = value
    \/ GetAttr(dev, key) = value

\* A faulty variant of match_ancestors: only the parent is looked at.
MatchAncestorsParentOnly(device, key, value) ==
    /\ Ancestors(device) # <<>>
    /\ MatchSingle(Ancestors(device)[1], key, value)

\* match_ancestors: some ancestor satisfies match_single.
MatchAncestors(device, key, value) ==
    \E i \in DOMAIN Ancestors(device) : MatchSingle(Ancestors(device)[i], key, value)

\* A faulty variant of the loop over the match items: one key that succeeds
\* is enough.
MatchItemsAnyKey(res, device) ==
    \E k \in DOMAIN res.match :
        IF StartsWithAt(k)
        THEN MatchAncestors(device, AncestorKeys[k], res.match[k])
        ELSE MatchSingle(device, k, res.match[k])

\* The loop over self.match.items(): every key has to succeed.
MatchItems(res, device) ==
    \A k \in DOMAIN res.match :
        IF StartsWithAt(k)
        THEN MatchAncestors(device, AncestorKeys[k], res.match[k])
        ELSE MatchSingle(device, k, res.match[k])

\* A faulty variant of the guard: the match specification is evaluated again
\* although the resource is bound.
AcceptsRematch(res, device) ==
    MatchItems(res, device) /\ FilterMatch(res, device)

\* The guard of try_match: a bound resource accepts only its own sys_path,
\* an unbound one evaluates its match specification and filter_match.
Accepts(res, device) ==
    IF res.device # NullDevice
    THEN res.device.sys_path = device.sys_path
    ELSE MatchItems(res, device) /\ FilterMatch(res, device)

\* A faulty variant of the state change: a change or move event does not
\* replace the device reference.
TransitionIgnoresChange(res, device) ==
    CASE device.action \in {None, "add"} ->
             [SetAvail(res, TRUE) EXCEPT !.device = device]
      [] device.action \in {"unbind", "remove"} ->
             [SetAvail(res, FALSE) EXCEPT !.device = NullDevice]
      [] OTHER -> res

\* A faulty variant of the state change: an add for a resource that is
\* already available keeps the device reference it holds.
TransitionKeepsFirst(res, device) ==
    CASE device.action \in {None, "add"} ->
             IF Avail(res) THEN res
             ELSE [SetAvail(res, TRUE) EXCEPT !.device = device]
      [] device.action \in {"change", "move"} ->
             [res EXCEPT !.device = device]
      [] device.action \in {"unbind", "remove"} ->
             [SetAvail(res, FALSE) EXCEPT !.device = NullDevice]
      [] OTHER -> res

\* A faulty variant of the state change: an add for a resource that is
\* already available is taken for an error and the resource is reset.
TransitionResetsOnDuplicate(res, device) ==
    CASE device.action \in {None, "add"} ->
             IF Avail(res)
             THEN [SetAvail(res, FALSE) EXCEPT !.device = NullDevice]
             ELSE [SetAvail(res, TRUE) EXCEPT !.device = device]
      [] device.action \in {"change", "move"} ->
             [res EXCEPT !.device = device]
      [] device.action \in {"unbind", "remove"} ->
             [SetAvail(res, FALSE) EXCEPT !.device = NullDevice]
      [] OTHER -> res

\* The state change of try_match once the device is accepted.
Transition(res, device) ==
    CASE device.action \in {None, "add"} ->
             [SetAvail(res, TRUE) EXCEPT !.device = device]
      [] device.action \in {"change", "move"} ->
             [res EXCEPT !.device = device]
      [] device.action \in {"unbind", "remove"} ->
             [SetAvail(res, FALSE) EXCEPT !.device = NullDevice]
      [] OTHER -> res

\* warnings.warn in try_match: an add for a resource that is already available.
Warns(res, device) ==
    device.action \in {None, "add"} /\ Avail(res)

\* A faulty variant of try_match: a mismatch is taken for the loss of the
\* device and the resource is reset.
TryMatchResetsOnMismatch(res, device) ==
    IF Accepts(res, device)
    THEN [ok |-> TRUE, res |-> Update(Transition(res, device)),
          warned |-> Warns(res, device)]
    ELSE [ok |-> FALSE,
          res |-> Update([SetAvail(res, FALSE) EXCEPT !.device = NullDevice]),
          warned |-> FALSE]

\* USBResource.try_match: the result, the resource afterwards and whether a
\* warning was emitted.
TryMatch(res, device) ==
    IF Accepts(res, device)
    THEN [ok |-> TRUE, res |-> Update(Transition(res, device)),
          warned |-> Warns(res, device)]
    ELSE [ok |-> FALSE, res |-> res, warned |-> FALSE]

-----------------------------------------------------------------------------
(* UdevManager *)

\* The set-ups the manager is started in, each a list of constructed
\* resources and the devices of the host: overlapping match specifications,
\* an ancestor key, a filter that accepts and one that rejects, and the
\* composite SD-multiplexer.
Setups ==
    { [resources |-> << USBSerialPort(EmptyDict),
                        USBResource([SUBSYSTEM |-> "tty"]) >>,
       host |-> {"/usb1/tty0", "/usb2/tty1"}],
      [resources |-> << USBResource(("@ID_VENDOR_ID" :> "067b")
                                    @@ [SUBSYSTEM |-> "tty"]),
                        USBSerialPort(EmptyDict) >>,
       host |-> {"/usb1/tty0", "/usb2/tty1"}],
      [resources |-> << USBSDMuxDevice(EmptyDict),
                        AndroidFastboot(EmptyDict, "0424", "4041") >>,
       host |-> {"/usb1/tty0", "/usb3"}],
      [resources |-> << AndroidFastboot(EmptyDict, "1d6b", "0104"),
                        USBResource(EmptyDict),
                        USBSerialPort([ID_MODEL_ID |-> "6001"]) >>,
       host |-> {"/usb1/tty0", "/usb3"}] }

\* What the last operation did: its kind, the resource that accepted (or was
\* scanned), the device offered (or bound by the scan), the resources and
\* devices try_match was called with, whether try_match warned, and how many
\* events the observer had pushed when a scan ran.
Observation(op, res, dev, triedRes, triedDev, warned, at) ==
    [op |-> op, res |-> res, dev |-> dev, triedRes |-> triedRes,
     triedDev |-> triedDev, warned |-> warned, at |-> at]

\* A faulty variant of the enumeration: match_subsystem is left out.
ListDevicesOfAnySubsystem(pres, subsystem) ==
    LET paths == SelectSeq(EnumOrder, LAMBDA p : p \in pres)
    IN  [i \in DOMAIN paths |-> Snapshot(paths[i], None, 0)]

\* context.list_devices() narrowed by match_subsystem: snapshots without an
\* action of the present devices of that subsystem, in enumeration order.
ListDevices(pres, subsystem) ==
    LET paths == SelectSeq(EnumOrder,
                     LAMBDA p : p \in pres /\ DeviceTable[p].subsystem = subsystem)
    IN  [i \in DOMAIN paths |-> Snapshot(paths[i], None, 0)]

\* The loop of on_resource_added from the j-th enumerated device on: offer
\* the devices to the resource until try_match succeeds.
RECURSIVE ScanFrom(_, _, _)
ScanFrom(res, devices, j) ==
    IF j > Len(devices)
    THEN [res |-> res, accepted |-> 0, tried |-> Len(devices), warned |-> FALSE]
    ELSE LET r == TryMatch(res, devices[j])
         IN  IF r.ok
             THEN [res |-> r.res, accepted |-> j, tried |-> j, warned |-> r.warned]
             ELSE ScanFrom(r.res, devices, j + 1)

\* A faulty variant of the inner loop of poll: the break is missing and
\* every resource is offered the device.
RECURSIVE OfferFromNoBreak(_, _, _)
OfferFromNoBreak(rs, device, i) ==
    IF i > Len(rs)
    THEN [resources |-> rs, accepted |-> 0, tried |-> Len(rs), warned |-> FALSE]
    ELSE LET r == TryMatch(rs[i], device)
             rest == OfferFromNoBreak([rs EXCEPT ![i] = r.res], device, i + 1)
         IN  IF r.ok
             THEN [rest EXCEPT !.accepted = i, !.warned = r.warned \/ rest.warned]
             ELSE rest

\* The inner loop of poll from the i-th resource on: offer the device to the
\* resources in registration order until one accepts it.
RECURSIVE OfferFrom(_, _, _)
OfferFrom(rs, device, i) ==
    IF i > Len(rs)
    THEN [resources |-> rs, accepted |-> 0, tried |-> Len(rs), warned |-> FALSE]
    ELSE LET r == TryMatch(rs[i], device)
             after == [rs EXCEPT ![i] = r.res]
         IN  IF r.ok
             THEN [resources |-> after, accepted |-> i, tried |-> i,
                   warned |-> r.warned]
             ELSE OfferFrom(after, device, i + 1)

\* A faulty variant of put: an event for the sys_path of the newest queued
\* event replaces that event.
PutCoalescing(q, device) ==
    IF q # <<>> /\ q[Len(q)].sys_path = device.sys_path
    THEN [q EXCEPT ![Len(q)] = device]
    ELSE Append(q, device)

\* queue.put(device)
Put(q, device) == Append(q, device)

\* queue.get(False) on a non-empty queue: the oldest element and the rest.
GetNoWait(q) == [device |-> Head(q), rest |-> Tail(q)]

Init ==
    /\ \E setup \in Setups :
           /\ resources = setup.resources
           /\ host = setup.host
           /\ present \in SUBSET setup.host
    /\ queue = <<>>
    /\ pc = "idle"
    /\ nPushed = 0
    /\ nPopped = 0
    /\ last = Observation("init", 0, NullDevice, 0, <<>>, FALSE, 0)

\* UdevManager.on_resource_added(resources[n]), on the polling thread.
OnResourceAdded(n) ==
    /\ pc = "idle"
    /\ LET devices == ListDevices(present, resources[n].match["SUBSYSTEM"])
           s == ScanFrom(resources[n], devices, 1)
       IN  /\ resources' = [resources EXCEPT ![n] = s.res]
           /\ last' = Observation("scan", n,
                          IF s.accepted = 0 THEN NullDevice ELSE devices[s.accepted],
                          0, [i \in 1..s.tried |-> devices[i].sys_path], s.warned,
                          nPushed)
    /\ UNCHANGED <<host, queue, present, pc, nPushed, nPopped>>

\* The observer thread: the kernel reports an event for the device at path
\* and the callback _insert_into_queue puts the snapshot into the queue.
InsertIntoQueue(path, action) ==
    /\ queue' = Put(queue, Snapshot(path, action, nPushed + 1))
    /\ nPushed' = nPushed + 1
    /\ present' = CASE action = "add" -> present \cup {path}
                    [] action = "remove" -> present \ {path}
                    [] OTHER -> present
    /\ UNCHANGED <<host, resources, pc, nPopped, last>>

\* poll is called: timeout = Timeout(0.1), and the loop condition is next.
PollBegin ==
    /\ pc = "idle"
    /\ pc' = "check"
    /\ UNCHANGED <<host, resources, queue, present, nPushed, nPopped, last>>

\* The loop condition finds the timeout expired, which the 0.1 s running out
\* can make happen at any evaluation: poll returns.  The observation keeps
\* the event left at the head of the queue.
PollExpired ==
    /\ pc = "check"
    /\ pc' = "idle"
    /\ last' = Observation("expired", 0,
                   IF queue = <<>> THEN NullDevice ELSE Head(queue),
                   0, <<>>, FALSE, 0)
    /\ UNCHANGED <<host, resources, queue, present, nPushed, nPopped>>

\* A faulty variant of the loop condition: the budget is used up before the
\* first test, so that the loop body is never entered.
PollContinueNoBudget ==
    /\ pc = "check"
    /\ FALSE
    /\ UNCHANGED vars

\* The loop condition finds the timeout not expired: queue.get(False) is next.
PollContinue ==
    /\ pc = "check"
    /\ pc' = "get"
    /\ UNCHANGED <<host, resources, queue, present, nPushed, nPopped, last>>

\* queue.get(False) returns an event, which is offered to the resources; the
\* loop condition is next.
PollEvent ==
    /\ pc = "get"
    /\ queue # <<>>
    /\ LET got == GetNoWait(queue)
           o == OfferFrom(resources, got.device, 1)
       IN  /\ queue' = got.rest
           /\ resources' = o.resources
           /\ last' = Observation("event", o.accepted, got.device, o.tried,
                                  <<>>, o.warned, 0)
    /\ nPopped' = nPopped + 1
    /\ pc' = "check"
    /\ UNCHANGED <<host, present, nPushed>>

\* A faulty variant of the empty queue: queue.get() blocks, the polling
\* thread waits in it for the next event and takes no step.
PollEmptyBlocks ==
    /\ pc = "get"
    /\ queue = <<>>
    /\ FALSE
    /\ UNCHANGED vars

\* queue.get(False) raises queue.Empty: poll leaves the loop and returns.
PollEmpty ==
    /\ pc = "get"
    /\ queue = <<>>
    /\ pc' = "idle"
    /\ last' = Observation("empty", 0, NullDevice, 0, <<>>, FALSE, 0)
    /\ UNCHANGED <<host, resources, queue, present, nPushed, nPopped>>

Next ==
    \/ \E n \in DOMAIN resources : OnResourceAdded(n)
    \/ /\ nPushed < MaxEvents
       /\ \E path \in host, action \in EventActions : InsertIntoQueue(path, action)
    \/ PollBegin
    \/ PollExpired
    \/ PollContinue
    \/ PollEvent
    \/ PollEmpty

Spec == Init /\ [][Next]_vars

-----------------------------------------------------------------------------
(* The life of one device: a single registered resource, one device that    *)
(* satisfies its match specification, and the kernel reporting the device's *)
(* add, change and remove in this order while poll is called.               *)

Script == <<"add", "change", "remove">>

ScriptResources ==
    { USBSerialPort(EmptyDict),
      USBSerialPort([ID_MODEL_ID |-> "6001"]),
      USBResource(EmptyDict),
      USBResource([SUBSYSTEM |-> "tty"]),
      USBResource(("@ID_VENDOR_ID" :> "067b") @@ [SUBSYSTEM |-> "tty"]),
      AndroidFastboot(EmptyDict, "0424", "4041"),
      USBSDMuxDevice(EmptyDict) }

SeqInit ==
    /\ \E r \in ScriptResources, p \in Paths :
           /\ Accepts(r, Snapshot(p, "add", 1))
           /\ resources = <<r>>
           /\ host = {p}
    /\ queue = <<>>
    /\ present = {}
    /\ pc = "idle"
    /\ nPushed = 0
    /\ nPopped = 0
    /\ last = Observation("init", 0, NullDevice, 0, <<>>, FALSE, 0)

\* The kernel reports the next event of the script for the host's device.
ScriptEvent ==
    /\ nPushed < Len(Script)
    /\ \E path \in host : InsertIntoQueue(path, Script[nPushed + 1])

SeqNext ==
    \/ ScriptEvent
    \/ PollBegin
    \/ PollExpired
    \/ PollContinue
    \/ PollEvent
    \/ PollEmpty

SeqSpec == SeqInit /\ [][SeqNext]_vars

\* The polling thread keeps running: a call of poll in progress takes its
\* next step.
PollStep == PollExpired \/ PollContinue \/ PollEvent \/ PollEmpty

SeqLiveSpec == SeqSpec /\ WF_vars(PollStep)

\* poll is called again and again, a call in progress takes its next step,
\* and the 0.1 s of a call do not run out before its loop condition is
\* tested in every call from some point on.
DrainLiveSpec ==
    SeqSpec /\ WF_vars(PollBegin) /\ WF_vars(PollStep) /\ SF_vars(PollContinue)

-----------------------------------------------------------------------------
(* The start-up race: one resource and one present device that satisfies   *)
(* its match specification; the observer reports the device's add while    *)
(* the resource is scanned and poll is called.                             *)

RaceInit ==
    /\ \E r \in ScriptResources, p \in Paths :
           /\ Accepts(r, Snapshot(p, "add", 1))
           /\ resources = <<r>>
           /\ host = {p}
    /\ present = host
    /\ queue = <<>>
    /\ pc = "idle"
    /\ nPushed = 0
    /\ nPopped = 0
    /\ last = Observation("init", 0, NullDevice, 0, <<>>, FALSE, 0)

\* The observer reports the add of the present device, once.
RaceEvent ==
    /\ nPushed = 0
    /\ \E path \in host : InsertIntoQueue(path, "add")

RaceNext ==
    \/ RaceEvent
    \/ OnResourceAdded(1)
    \/ PollBegin
    \/ PollExpired
    \/ PollContinue
    \/ PollEvent
    \/ PollEmpty

RaceSpec == RaceInit /\ [][RaceNext]_vars

-----------------------------------------------------------------------------
(* try_match on its own: one resource, constructed with one of a range of   *)
(* match specifications, is offered snapshots of the host's devices with    *)
(* every action, again and again.                                           *)

MatchResources ==
    { USBResource(EmptyDict),
      USBResource([SUBSYSTEM |-> "tty", ID_VENDOR_ID |-> "0403",
                   ID_MODEL_ID |-> "6001"]),
      USBResource([SUBSYSTEM |-> "tty", ID_VENDOR_ID |-> "0403",
                   ID_MODEL_ID |-> "2303"]),
      USBResource([idVendor |-> "0424"]),
      USBResource([SUBSYSTEM |-> "tty", sys_name |-> "ttyUSB1"]),
      USBResource(("@ID_VENDOR_ID" :> "0403") @@ [SUBSYSTEM |-> "tty"]),
      USBResource(("@SUBSYSTEM" :> "tty") @@ [SUBSYSTEM |-> "tty"]),
      USBResource(("@SUBSYSTEM" :> "usb") @@ EmptyDict),
      USBResource(("@DRIVER" :> "ftdi_sio") @@ ("@ID_VENDOR_ID" :> "067b")
                  @@ [SUBSYSTEM |-> "tty"]),
      USBSerialPort([ID_MODEL_ID |-> "6001"]),
      USBSerialPort(EmptyDict),
      USBMassStorage(EmptyDict),
      AndroidFastboot(EmptyDict, "0424", "4041"),
      USBSDMuxDevice(EmptyDict) }

MatchInit ==
    /\ \E r \in MatchResources : resources = <<r>>
    /\ host = DOMAIN DeviceTable
    /\ present = host
    /\ queue = <<>>
    /\ pc = "idle"
    /\ nPushed = 0
    /\ nPopped = 0
    /\ last = Observation("init", 0, NullDevice, 0, <<>>, FALSE, 0)

\* resources[1].try_match(device) with a snapshot of the device at path.
TryMatchCall(path, action) ==
    /\ pc = "idle"
    /\ LET device == Snapshot(path, action, 0)
           t == TryMatch(resources[1], device)
       IN  /\ resources' = <<t.res>>
           /\ last' = Observation("try_match", IF t.ok THEN 1 ELSE 0, device,
                                  1, <<>>, t.warned, 0)
    /\ UNCHANGED <<host, queue, present, pc, nPushed, nPopped>>

MatchNext ==
    \E path \in host, action \in EventActions \cup {None} :
        TryMatchCall(path, action)

MatchSpec == MatchInit /\ [][MatchNext]_vars


-----------------------------------------------------------------------------
(* Construction: resources are constructed one after the other, with a     *)
(* match argument or without, while the manager scans and polls.           *)

\* Bound on the number of resources constructed in a run.
MaxResources == 2

\* The match arguments of the constructors; "default" stands for no argument.
MatchSeeds == {"default", "model"}

\* The dict a constructor starts from: the caller's dict, or the default
\* object of the attribute with what earlier constructions have put into it.
SeedDict(rs, seed) ==
    IF seed # "default"
    THEN [ID_MODEL_ID |-> "6001"]
    ELSE IF \E i \in DOMAIN rs : rs[i].shared_match
         THEN rs[CHOOSE i \in DOMAIN rs : rs[i].shared_match].match
         ELSE EmptyDict

\* cls(target, match=...): the attrs __init__ binds self.match to the seed
\* dict and __attrs_post_init__ writes the fixed keys into that dict, which
\* every resource constructed without a match argument refers to as well.
Construct(rs, cls, seed) ==
    LET m == SeedDict(rs, seed)
        r == CASE cls = "USBSerialPort" -> USBSerialPort(m)
               [] cls = "USBMassStorage" -> USBMassStorage(m)
               [] cls = "USBSDMuxDevice" -> USBSDMuxDevice(m)
               [] OTHER -> USBResource(m)
        others == [i \in DOMAIN rs |->
                      IF seed = "default" /\ rs[i].shared_match
                      THEN [rs[i] EXCEPT !.match = r.match]
                      ELSE rs[i]]
    IN  Append(others, [r EXCEPT !.shared_match = (seed = "default")])

ConsInit ==
    /\ resources = <<>>
    /\ host = {"/usb1/tty0"}
    /\ present \in SUBSET host
    /\ queue = <<>>
    /\ pc = "idle"
    /\ nPushed = 0
    /\ nPopped = 0
    /\ last = Observation("init", 0, NullDevice, 0, <<>>, FALSE, 0)

\* A resource is constructed and registered with the manager.
ConstructResource(cls, seed) ==
    /\ pc = "idle"
    /\ Len(resources) < MaxResources
    /\ resources' = Construct(resources, cls, seed)
    /\ last' = Observation("construct", Len(resources) + 1, NullDevice, 0,
                           <<>>, FALSE, 0)
    /\ UNCHANGED <<host, queue, present, pc, nPushed, nPopped>>

ConsNext ==
    \/ \E cls \in {"USBResource", "USBSerialPort", "USBMassStorage",
                    "USBSDMuxDevice"}, seed \in MatchSeeds :
           ConstructResource(cls, seed)
    \/ \E n \in DOMAIN resources : OnResourceAdded(n)
    \/ /\ nPushed < MaxEvents
       /\ \E path \in host, action \in EventActions : InsertIntoQueue(path, action)
    \/ PollBegin
    \/ PollExpired
    \/ PollContinue
    \/ PollEvent
    \/ PollEmpty

ConsSpec == ConsInit /\ [][ConsNext]_vars

-----------------------------------------------------------------------------
(* The SD-multiplexer: one USBSDMuxDevice, the multiplexer's usb device and *)
(* its two children, which the kernel adds below a present parent and       *)
(* removes before it.  poll is called on the manager and on the resource.   *)

\* Bound on the number of kernel events in a run with the SD-multiplexer.
MaxMuxEvents == 3

MuxHost == {"/usb3", "/usb3/sda", "/usb3/sg0"}

\* The sets of devices that can be present together: with every device its
\* ancestors.
Plugged(pres) == \A p \in pres : AncestorPaths(p) \subseteq pres

\* The events the kernel can report next: an add for an absent device whose
\* ancestors are present, a remove for a present device without present
\* descendants, any other action for a present device.
Reportable(path, action) ==
    CASE action = "add" ->
             path \notin present /\ AncestorPaths(path) \subseteq present
      [] action = "remove" ->
             /\ path \in present
             /\ \A c \in present : path \notin AncestorPaths(c)
      [] OTHER -> path \in present

\* The loop of UdevManager.poll run for k events (or until the queue is
\* empty): each is taken from the queue and offered to the resources.
RECURSIVE DrainFrom(_, _, _)
DrainFrom(rs, q, k) ==
    IF k = 0 \/ q = <<>>
    THEN [resources |-> rs, queue |-> q]
    ELSE LET got == GetNoWait(q)
         IN  DrainFrom(OfferFrom(rs, got.device, 1).resources, got.rest, k - 1)

\* resources[n].poll() of a USBSDMuxDevice, from the polling thread:
\* super().poll() runs the manager's poll, which takes k events before its
\* timeout expires or the queue is empty, then the paths are cleared or
\* searched.
ResourcePoll(n) ==
    /\ pc = "idle"
    /\ resources[n].cls = "USBSDMuxDevice"
    /\ \E k \in 0..Len(queue) :
           LET d == DrainFrom(resources, queue, k)
           IN  /\ resources' = [d.resources EXCEPT
                                   ![n] = USBSDMuxDevicePoll(@, present)]
               /\ queue' = d.queue
               /\ nPopped' = nPopped + k
    /\ last' = Observation("resource_poll", n, NullDevice, 0, <<>>, FALSE, 0)
    /\ UNCHANGED <<host, present, pc, nPushed>>

MuxInit ==
    /\ resources = <<USBSDMuxDevice(EmptyDict)>>
    /\ host = MuxHost
    /\ present \in {pres \in SUBSET MuxHost : Plugged(pres)}
    /\ queue = <<>>
    /\ pc = "idle"
    /\ nPushed = 0
    /\ nPopped = 0
    /\ last = Observation("init", 0, NullDevice, 0, <<>>, FALSE, 0)

\* The kernel reports an event that the devices present allow.
MuxEvent ==
    /\ nPushed < MaxMuxEvents
    /\ \E path \in host, action \in EventActions :
           Reportable(path, action) /\ InsertIntoQueue(path, action)

MuxNext ==
    \/ \E n \in DOMAIN resources : OnResourceAdded(n)
    \/ \E n \in DOMAIN resources : ResourcePoll(n)
    \/ MuxEvent
    \/ PollBegin
    \/ PollExpired
    \/ PollContinue
    \/ PollEvent
    \/ PollEmpty

MuxSpec == MuxInit /\ [][MuxNext]_vars

-----------------------------------------------------------------------------
(* Properties *)

\* A snapshot of a device of the host as the observer or the enumeration
\* would deliver it next: every snapshot is a new object.
NextSnapshot(p, a) == Snapshot(p, a, nPushed + 1)

\* A resource of a class that does not override avail.
Plain(res) == res.cls # "USBSDMuxDevice"

\* the resource holds a device
Bound(res) == res.device # NullDevice

\* C1: for every resource that is not composite, in every reachable state,
\* avail is true if and only if device is not None.
C1_AvailIffDevice ==
    \A n \in DOMAIN resources :
        Plain(resources[n]) => (Avail(resources[n]) <=> Bound(resources[n]))

\* C2: while a resource holds a device with sys_path p, try_match on any
\* snapshot with another sys_path, whatever its action and whether or not it
\* satisfies the match specification and filter_match, returns False, emits
\* no warning and leaves the resource as it is.
C2_IdentityLock ==
    \A n \in DOMAIN resources :
        Bound(resources[n])
            => \A p \in host \ {resources[n].device.sys_path} :
               \A a \in EventActions \cup {None} :
                   TryMatch(resources[n], NextSnapshot(p, a))
                       = [ok |-> FALSE, res |-> resources[n], warned |-> FALSE]

\* C2 happens: poll has offered an event to a resource bound to another
\* sys_path whose match specification and filter the event's device
\* satisfies, and the resource has declined it.
C2_Witness ==
    /\ last.op = "event"
    /\ \E n \in 1..last.triedRes :
           /\ n # last.res
           /\ Bound(resources[n])
           /\ resources[n].device.sys_path # last.dev.sys_path
           /\ MatchItems(resources[n], last.dev)
           /\ FilterMatch(resources[n], last.dev)

-----------------------------------------------------------------------------
\* The k-th event of the script, as the observer pushed it.
ScriptDevice(k) == Snapshot(CHOOSE p \in host : TRUE, Script[k], k)

\* C3 as stated, for every class of resource: add, change and remove of one
\* matching device, delivered through the queue and poll to the single
\* registered resource, drive avail false, true, true, false; device is the
\* add snapshot, then the change snapshot, then None.
C3_AsStated ==
    LET r == resources[1]
    IN  /\ nPopped = 0 => (~Bound(r) /\ ~Avail(r))
        /\ nPopped = 1 => (r.device = ScriptDevice(1) /\ Avail(r))
        /\ nPopped = 2 => (r.device = ScriptDevice(2) /\ Avail(r))
        /\ nPopped = 3 => (~Bound(r) /\ ~Avail(r))

\* C3, amended: the same sequence drives device from None to the add
\* snapshot, to the change snapshot and back to None for every class; avail
\* goes false, true, true, false for the classes that do not override avail,
\* and stays false for USBSDMuxDevice, whose avail ignores the assignment.
C3_AddChangeRemove ==
    LET r == resources[1]
    IN  /\ nPopped = 0 => (~Bound(r) /\ ~Avail(r))
        /\ nPopped = 1 => (r.device = ScriptDevice(1) /\ (Avail(r) <=> Plain(r)))
        /\ nPopped = 2 => (r.device = ScriptDevice(2) /\ (Avail(r) <=> Plain(r)))
        /\ nPopped = 3 => (~Bound(r) /\ ~Avail(r))

\* C3 happens: the whole script has been delivered to a resource that does
\* not override avail, and the resource has accepted the remove.
C3_Witness ==
    /\ nPopped = Len(Script)
    /\ Plain(resources[1])
    /\ last.op = "event"
    /\ last.res = 1
    /\ last.dev = ScriptDevice(3)

\* C4: whenever poll processes an unbind or remove event for sys_path p while
\* a registered resource holds a device with sys_path p, that resource has
\* device = None and avail = False once the event has been processed.
C4_RemoveReachesHolder ==
    [][(nPopped' = nPopped + 1 /\ Head(queue).action \in {"unbind", "remove"})
        => \A n \in DOMAIN resources :
               (Bound(resources[n])
                    /\ resources[n].device.sys_path = Head(queue).sys_path)
                => (~Bound(resources'[n]) /\ ~Avail(resources'[n]))]_vars

\* C5: poll offers each event it takes from the queue to the resources in
\* registration order and stops at the first whose try_match succeeds: the
\* resources before it have declined, it alone changes state, and the
\* resources after it are not offered the event and stay as they are.
C5_FirstAcceptorOnly ==
    [][nPopped' = nPopped + 1
        => LET e == Head(queue)
               k == last'.res
               acc == {n \in DOMAIN resources : TryMatch(resources[n], e).ok}
           IN  /\ last'.op = "event"
               /\ last'.dev = e
               /\ Cardinality({n \in DOMAIN resources :
                                   resources'[n] # resources[n]}) <= 1
               /\ IF acc = {}
                  THEN /\ k = 0
                       /\ last'.triedRes = Len(resources)
                       /\ resources' = resources
                  ELSE /\ k \in acc
                       /\ \A n \in acc : k <= n
                       /\ last'.triedRes = k
                       /\ resources' = [resources EXCEPT
                                           ![k] = TryMatch(resources[k], e).res]]_vars

\* C5 happens: poll has offered an event that two resources would accept;
\* the earlier one has taken it and the later one, left as it was, would
\* still accept it.
C5_Witness ==
    /\ last.op = "event"
    /\ last.res >= 1
    /\ \E j \in DOMAIN resources :
           /\ j > last.res
           /\ Accepts(resources[j], last.dev)
           /\ resources[last.res].device = last.dev

\* C6: under every interleaving of the observer's callback with poll, the
\* events poll has not yet taken are exactly the pushed events nPopped + 1
\* to nPushed, in the order pushed, and the event poll took last is the
\* nPopped-th pushed: nothing is lost, duplicated, coalesced or reordered.
C6_Fifo ==
    /\ Len(queue) = nPushed - nPopped
    /\ \A i \in DOMAIN queue : queue[i].sequence_number = nPopped + i
    /\ last.op = "event" => last.dev.sequence_number = nPopped

\* C6 happens: within one call of poll an event has been offered while a
\* later event for the same sys_path waits in the queue.
C6_Witness ==
    /\ pc = "check"
    /\ last.op = "event"
    /\ queue # <<>>
    /\ queue[1].sys_path = last.dev.sys_path
    /\ nPopped >= 1

\* C7: every call of poll returns.  At queue.get with the queue empty the
\* next step of the polling thread is the return; a return takes no event
\* from the queue and changes no resource, so the events that remain when
\* the timeout expired stay queued in their order; and a call in progress
\* always ends.
C7_PollReturns ==
    /\ [][(pc = "get" /\ queue = <<>> /\ pc' # pc) => pc' = "idle"]_vars
    /\ [][(pc # "idle" /\ pc' = "idle")
            => (queue' = queue /\ resources' = resources)]_vars
    /\ (pc # "idle") ~> (pc = "idle")

\* C7 happens: poll has returned on the expired timeout with an event left
\* at the head of the queue.
C7_Witness ==
    /\ pc = "idle"
    /\ last.op = "expired"
    /\ last.dev # NullDevice
    /\ queue # <<>>
    /\ Head(queue) = last.dev

\* C8: try_match of an available resource bound to sys_path p with a
\* snapshot of p whose action is None or add succeeds, warns, keeps the
\* resource available and makes the new snapshot its device.
C8_DuplicateAdd ==
    \A n \in DOMAIN resources :
        (Avail(resources[n]) /\ Bound(resources[n]))
            => \A a \in {None, "add"} :
                   LET d == NextSnapshot(resources[n].device.sys_path, a)
                       t == TryMatch(resources[n], d)
                   IN  t.ok /\ t.warned /\ Avail(t.res) /\ t.res.device = d

\* C8 happens: poll has delivered an add to a resource that was already
\* available, try_match has warned and the resource holds the new snapshot.
C8_Witness ==
    /\ last.op = "event"
    /\ last.warned
    /\ last.dev.action = "add"
    /\ last.res >= 1
    /\ resources[last.res].device = last.dev
    /\ Avail(resources[last.res])

-----------------------------------------------------------------------------
\* The step is a call of on_resource_added for the n-th resource.
ScanStep(n) ==
    /\ last'.op = "scan"
    /\ last'.res = n
    /\ nPushed' = nPushed
    /\ nPopped' = nPopped
    /\ pc' = pc
    /\ (last' # last \/ resources' # resources)

\* The place of a device in the enumeration.
PathIndex(p) == CHOOSE i \in DOMAIN EnumOrder : EnumOrder[i] = p

\* What a scan of the unbound n-th resource does to device, to the other
\* resources and to the queue: only present devices of the subsystem
\* match['SUBSYSTEM'] are offered, in enumeration order and up to the first
\* that satisfies the match specification and filter_match, which becomes the
\* resource's device; with no such device all are offered and the resource
\* stays as it is; the queue and the other resources are untouched.
ScanBindsFirst(n) ==
    LET r == resources[n]
        cand == {p \in present : DeviceTable[p].subsystem = r.match["SUBSYSTEM"]}
        good == {p \in cand : /\ MatchItems(r, Snapshot(p, None, 0))
                              /\ FilterMatch(r, Snapshot(p, None, 0))}
        tried == last'.triedDev
        offered == {tried[i] : i \in DOMAIN tried}
    IN  /\ offered \subseteq cand
        /\ \A i, j \in DOMAIN tried :
               i < j => PathIndex(tried[i]) < PathIndex(tried[j])
        /\ IF good = {}
           THEN /\ offered = cand
                /\ resources'[n] = r
                /\ last'.dev = NullDevice
           ELSE LET first == CHOOSE p \in good :
                                 \A q \in good : PathIndex(p) <= PathIndex(q)
                IN  /\ offered = {p \in cand : PathIndex(p) <= PathIndex(first)}
                    /\ resources'[n].device = Snapshot(first, None, 0)
                    /\ last'.dev = Snapshot(first, None, 0)
        /\ queue' = queue
        /\ \A m \in DOMAIN resources : m # n => resources'[m] = resources[m]

\* C9 as stated, for every class of resource: a scan of an unbound resource
\* offers the present devices of its subsystem in enumeration order up to
\* the first accepted one, leaves the queue alone, and the resource it has
\* bound is available.
C9_AsStated ==
    [][\A n \in DOMAIN resources :
           (ScanStep(n) /\ ~Bound(resources[n]))
            => /\ ScanBindsFirst(n)
               /\ Bound(resources'[n]) => Avail(resources'[n])]_vars

\* C9, amended: as stated for device, the order of the offers and the queue;
\* the scan makes the resource it has bound available if its class does not
\* override avail, and leaves the avail of a USBSDMuxDevice as it was.
C9_ScanBindsFirstMatch ==
    [][\A n \in DOMAIN resources :
           (ScanStep(n) /\ ~Bound(resources[n]))
            => /\ ScanBindsFirst(n)
               /\ Bound(resources'[n])
                    => IF Plain(resources[n])
                       THEN Avail(resources'[n])
                       ELSE Avail(resources'[n]) = Avail(resources[n])]_vars

\* C9 happens: before any event was processed a scan has offered two devices
\* to a resource that was not available; the first was declined, the second
\* is now the device of the resource, which is available.
C9_Witness ==
    /\ last.op = "scan"
    /\ nPopped = 0
    /\ ~last.warned
    /\ Len(last.triedDev) >= 2
    /\ last.dev # NullDevice
    /\ resources[last.res].device = last.dev
    /\ Avail(resources[last.res])

\* C10: a second call of on_resource_added for a resource, directly after
\* the first and with the same devices present, leaves the resource with the
\* bound sys_path and the avail it had after the first call, and leaves
\* exactly one resource bound to the device it holds.
C10_RescanOneBinding ==
    [][\A n \in DOMAIN resources :
           (ScanStep(n) /\ last.op = "scan" /\ last.res = n /\ last.at = nPushed)
            => /\ Bound(resources'[n]) = Bound(resources[n])
               /\ Bound(resources[n])
                    => resources'[n].device.sys_path = resources[n].device.sys_path
               /\ Avail(resources'[n]) = Avail(resources[n])
               /\ Bound(resources'[n])
                    => {m \in DOMAIN resources :
                          /\ Bound(resources'[m])
                          /\ resources'[m].device.sys_path
                               = resources'[n].device.sys_path} = {n}]_vars

-----------------------------------------------------------------------------
\* The direct lookup as the specification words it: the expected value is
\* the device's property of that name, or its sysfs attribute, or its
\* snapshot field.
DirectLookup(path, key, value) ==
    LET dev == DeviceTable[path]
    IN  \/ key \in DOMAIN dev.properties /\ dev.properties[key] = value
        \/ key \in DOMAIN dev.attributes /\ dev.attributes[key] = value
        \/ key = "sys_path" /\ path = value
        \/ /\ key \in {"subsystem", "device_type", "sys_name", "device_node"}
           /\ dev[key] = value

\* Some device in the ancestor chain of the device at path satisfies the
\* direct lookup.
AncestorLookup(path, key, value) ==
    \E i \in DOMAIN DeviceTable[path].ancestors :
        DirectLookup(DeviceTable[path].ancestors[i], key, value)

\* The keys of the match specification that succeed on the device at path.
SatisfiedKeys(match, path) ==
    { k \in DOMAIN match :
        IF k \in DOMAIN AncestorKeys
        THEN AncestorLookup(path, AncestorKeys[k], match[k])
        ELSE DirectLookup(path, k, match[k]) }

\* C11: try_match of an unbound resource with N match keys returns True if
\* and only if all N keys succeed on the device and filter_match accepts it,
\* where a key without '@' succeeds iff its value is the device's property,
\* sysfs attribute or snapshot field of that name; with fewer than N keys
\* satisfied the device is rejected.
C11_ConjunctiveMatching ==
    [][~Bound(resources[1])
         => LET match == resources[1].match
                path == last'.dev.sys_path
            IN  /\ last'.op = "try_match"
                /\ (last'.res = 1)
                     <=> /\ SatisfiedKeys(match, path) = DOMAIN match
                         /\ FilterMatch(resources[1], last'.dev)
                /\ Cardinality(SatisfiedKeys(match, path))
                       < Cardinality(DOMAIN match)
                     => last'.res = 0 /\ resources' = resources]_vars

\* C11 happens: an unbound resource with three match keys has rejected a
\* device that satisfies two of them and that filter_match would let pass.
C11_Witness ==
    /\ last.op = "try_match"
    /\ last.res = 0
    /\ ~Bound(resources[1])
    /\ Cardinality(DOMAIN resources[1].match) = 3
    /\ Cardinality(SatisfiedKeys(resources[1].match, last.dev.sys_path)) = 2
    /\ FilterMatch(resources[1], last.dev)

\* The keys of the match specification that start with '@'.
AtKeys(match) == DOMAIN match \cap DOMAIN AncestorKeys

\* C12: for an unbound resource a key '@k' succeeds on device D iff some
\* device in D's ancestor chain satisfies the direct lookup of k: if some
\* '@' key has no such ancestor (D's own properties do not count, an empty
\* chain has none) try_match returns False and changes nothing, and if the
\* other keys and filter_match succeed, try_match returns True exactly when
\* every '@' key has such an ancestor.
C12_AncestorMatching ==
    [][~Bound(resources[1])
         => LET match == resources[1].match
                path == last'.dev.sys_path
                found == {k \in AtKeys(match) :
                            AncestorLookup(path, AncestorKeys[k], match[k])}
                direct == \A k \in DOMAIN match \ AtKeys(match) :
                              DirectLookup(path, k, match[k])
            IN  /\ found # AtKeys(match)
                     => last'.res = 0 /\ resources' = resources
                /\ (direct /\ FilterMatch(resources[1], last'.dev))
                     => (last'.res = 1 <=> found = AtKeys(match))]_vars

\* C12 happens: a resource has accepted a device for an '@' key that the
\* device's parent does not satisfy but a farther ancestor does.
C12_Witness ==
    /\ last.op = "try_match"
    /\ last.res = 1
    /\ last.dev.action = "add"
    /\ resources[1].device = last.dev
    /\ \E k \in AtKeys(resources[1].match) :
           LET chain == DeviceTable[last.dev.sys_path].ancestors
           IN  /\ Len(chain) >= 2
               /\ ~DirectLookup(chain[1], AncestorKeys[k], resources[1].match[k])
               /\ DirectLookup(chain[2], AncestorKeys[k], resources[1].match[k])

-----------------------------------------------------------------------------
\* C13: in every state reachable by manager polls, polls of the resource
\* and device events, a USBSDMuxDevice is available if and only if it holds
\* a device and both its disk path and its control path are known.
C13_MuxAvailIffComplete ==
    \A n \in DOMAIN resources :
        resources[n].cls = "USBSDMuxDevice"
            => (Avail(resources[n])
                  <=> /\ Bound(resources[n])
                      /\ resources[n].disk_path # None
                      /\ resources[n].control_path # None)

\* The step is the manager's poll offering an event that the n-th resource
\* accepts.
AcceptStep(n) ==
    /\ pc = "get"
    /\ nPopped' = nPopped + 1
    /\ last'.op = "event"
    /\ last'.res = n

\* C14: a USBSDMuxDevice is unavailable unless both paths are known; an
\* unbind or remove event it accepts leaves it with neither path; and an add
\* event it accepts while it holds no device leaves it unavailable, the
\* paths having to be discovered from the new device's children.
C14_MuxClearsOnUnbind ==
    [][\A n \in DOMAIN resources :
           (AcceptStep(n) /\ resources[n].cls = "USBSDMuxDevice")
            => /\ last'.dev.action \in {"unbind", "remove"}
                    => /\ resources'[n].disk_path = None
                       /\ resources'[n].control_path = None
               /\ (last'.dev.action = "add" /\ ~Bound(resources[n]))
                    => ~Avail(resources'[n])]_vars

-----------------------------------------------------------------------------
\* C15: once a resource is constructed its match specification never
\* changes, whatever is constructed, scanned, matched or polled afterwards.
C15_MatchIsolation ==
    [][\A n \in DOMAIN resources : resources'[n].match = resources[n].match]_vars

-----------------------------------------------------------------------------
\* Neither the device the resource holds nor any of its ancestors is a
\* usb_device of the subsystem usb.
NoUsbDevice(res) ==
    /\ Bound(res)
    /\ \A p \in {res.device.sys_path} \cup AncestorPaths(res.device.sys_path) :
           ~(DeviceTable[p].subsystem = "usb"
               /\ DeviceTable[p].device_type = "usb_device")

\* The property returned None.
IsAbsent(r) == ~r.raised /\ r.absent

\* C16: in every reachable state, for a resource that holds no device, and
\* for one whose device neither is nor descends from a usb_device, the
\* properties busnum, devnum, vendor_id, model_id and path return None and
\* do not raise.
C16_DerivedAbsent ==
    \A n \in DOMAIN resources :
        (~Bound(resources[n]) \/ NoUsbDevice(resources[n]))
            => /\ IsAbsent(Busnum(resources[n]))
               /\ IsAbsent(Devnum(resources[n]))
               /\ IsAbsent(VendorId(resources[n]))
               /\ IsAbsent(ModelId(resources[n]))
               /\ IsAbsent(Path(resources[n]))

-----------------------------------------------------------------------------
\* C17: when poll offers an event, every resource that declines it keeps
\* its device, avail and the fields update derives; when all resources
\* decline it, the event is gone from the queue and no resource has changed.
C17_DeclineChangesNothing ==
    [][(pc = "get" /\ nPopped' = nPopped + 1)
         => LET event == Head(queue)
            IN  /\ last'.op = "event" /\ last'.dev = event
                /\ \A n \in 1..last'.triedRes :
                       n # last'.res => resources'[n] = resources[n]
                /\ last'.res = 0
                     => /\ last'.triedRes = Len(resources)
                        /\ resources' = resources
                        /\ queue' = Tail(queue)
                        /\ \A i \in DOMAIN queue' : queue'[i] # event]_vars

\* C17 happens: poll has offered an event to every resource, one of them
\* bound to a device, all have declined, and the event is no longer queued
\* while a later event is.
C17_Witness ==
    /\ last.op = "event"
    /\ last.res = 0
    /\ last.triedRes = Len(resources)
    /\ \E n \in DOMAIN resources : Bound(resources[n]) /\ Avail(resources[n])
    /\ queue # <<>>
    /\ \A i \in DOMAIN queue : queue[i] # last.dev

-----------------------------------------------------------------------------
\* on_resource_added only adds state: no resource that held a device is
\* left without one, none that was available is left unavailable.
ScanOnlyAdds ==
    \A n \in DOMAIN resources :
        ScanStep(n)
            => \A m \in DOMAIN resources :
                   /\ Bound(resources[m]) => Bound(resources'[m])
                   /\ Avail(resources[m]) => Avail(resources'[m])

\* The one event of the race has been pushed and taken from the queue.
RaceDrained == nPushed' = 1 /\ nPopped' = 1 /\ queue' = <<>>

\* C18 as stated, for every class of resource: however the push of the add
\* event, the scan and poll interleave, once the queue is drained the
\* resource holds the device and is available, and no scan takes state away.
C18_AsStated ==
    [][/\ ScanOnlyAdds
       /\ RaceDrained
            => /\ Bound(resources'[1])
               /\ resources'[1].device.sys_path \in host
               /\ Avail(resources'[1])]_vars

\* C18, amended: as stated for the device; the resource is available if
\* its class does not override avail, and a USBSDMuxDevice, whose avail
\* follows from its paths, stays unavailable.
C18_ScanQueueRace ==
    [][/\ ScanOnlyAdds
       /\ RaceDrained
            => /\ Bound(resources'[1])
               /\ resources'[1].device.sys_path \in host
               /\ Avail(resources'[1]) <=> Plain(resources'[1])]_vars

\* C18 happens: the scan had bound the device when poll delivered the
\* queued add for it, try_match has warned, and with the queue drained
\* the resource holds the event's snapshot and is available.
C18_Witness ==
    /\ nPushed = 1
    /\ nPopped = 1
    /\ queue = <<>>
    /\ last.op = "event"
    /\ last.warned
    /\ resources[1].device = last.dev
    /\ Avail(resources[1])

-----------------------------------------------------------------------------
\* C19: with finitely many events pushed and poll called again and again,
\* the k-th pushed event is eventually taken from the queue and offered, an
\* event that a call of poll left at the head of the queue when its budget
\* expired is taken by a later call, and eventually the queue stays empty.
C19_BacklogDrains ==
    /\ \A k \in 1..Len(Script) : (nPushed >= k) ~> (nPopped >= k)
    /\ \A k \in 1..Len(Script) :
           (/\ last.op = "expired"
            /\ last.dev # NullDevice
            /\ last.dev.sequence_number = k) ~> (nPopped >= k)
    /\ <>[](queue = <<>>)

\* C19 happens: a call of poll has returned on its expired budget and left
\* a backlog of two events in the queue.
C19_Witness ==
    /\ pc = "idle"
    /\ last.op = "expired"
    /\ Len(queue) >= 2
    /\ last.dev = Head(queue)

-----------------------------------------------------------------------------
\* C20: in every reachable state no two resources hold devices with the
\* same sys_path.
C20_BindingExclusive ==
    \A n, m \in DOMAIN resources :
        (n # m /\ Bound(resources[n]) /\ Bound(resources[m]))
            => resources[n].device.sys_path # resources[m].device.sys_path

=============================================================================
